---- MODULE Spec2Model ----
(***************************************************************************)
(* Formula editor: markup -> Parser -> node tree -> Measure -> Draw.       *)
(* The markup is a sequence of one-character strings.  The parser cursor   *)
(* `pos` is the C++ 0-based index, so source[pos] is s[pos + 1] here.       *)
(***************************************************************************)
EXTENDS Integers, Sequences, FiniteSets, TLC

VARIABLES
    currentFormula,  \* the global currentFormula: the edit control's text
    pc,              \* where the window procedure stands: "idle", or inside
                     \* WM_PAINT after Parse, Measure, a repeated Measure, Draw,
                     \* or "saved" at the end of SaveToSVG
    root,            \* the handler's local root: the tree Parse returned, with
                     \* the geometry Measure gave it
    pos,             \* the parser's cursor when Parse returned
    parseOk,         \* every parse loop advanced, every sub-parse was shorter
    rend,            \* the renderer: its font state and its metrics profile
    prevRoot,        \* the tree as it was before a repeated Measure
    out,             \* the primitives Draw emitted, in order
    calls,           \* the Draw calls made: node path, x, y
    fullFile         \* SaveToSVG's document: the size in its <svg> element

vars == <<currentFormula, pc, root, pos, parseOk, rend, prevRoot, out, calls,
          fullFile>>

RECURSIVE Parse(_, _)
RECURSIVE ParseLoop(_, _, _, _, _)
RECURSIVE ParseItem(_, _, _)
RECURSIVE ParseCommand(_, _, _)
RECURSIVE CheckForScripts(_, _, _, _)
RECURSIVE ScriptLoop(_, _, _, _, _, _)
RECURSIVE BraceLoop(_, _, _, _)
RECURSIVE BracketLoop(_, _, _)
RECURSIVE DigitRun(_, _, _)
RECURSIVE AlphaRun(_, _, _)
RECURSIVE LeftScan(_, _, _)
RECURSIVE Measure(_, _)
RECURSIVE MeasureRow(_, _, _, _, _, _, _)
RECURSIVE Draw(_, _, _, _, _)
RECURSIVE DrawRow(_, _, _, _, _, _, _)
RECURSIVE AllNodes(_)
RECURSIVE SumWidths(_, _)
RECURSIVE Flatten(_)
RECURSIVE SeqsUpTo(_, _)
RECURSIVE NodeAt(_, _)
RECURSIVE OpenBefore(_, _, _, _)
RECURSIVE WidthBefore(_, _)
RECURSIVE LastLimit(_, _)

(* ------------------------------ constants ------------------------------ *)

BASE_FONT_SIZE == 28
RENDER_X == 50
RENDER_Y == 100

\* Peek()/Next() answer 0 at end of input; no markup character equals it.
NUL == "NUL"
BS == "\\"

Letters ==
    {"a", "b", "c", "d", "e", "f", "g", "h", "i", "j", "k", "l", "m",
     "n", "o", "p", "q", "r", "s", "t", "u", "v", "w", "x", "y", "z",
     "A", "B", "C", "D", "E", "F", "G", "H", "I", "J", "K", "L", "M",
     "N", "O", "P", "Q", "R", "S", "T", "U", "V", "W", "X", "Y", "Z"}

Digits == {"0", "1", "2", "3", "4", "5", "6", "7", "8", "9"}

iswalpha(c) == c \in Letters
iswdigit(c) == c \in Digits

S_left == <<"l", "e", "f", "t">>
S_right == <<"r", "i", "g", "h", "t">>
S_frac == <<"f", "r", "a", "c">>
S_sqrt == <<"s", "q", "r", "t">>
S_int == <<"i", "n", "t">>
S_sum == <<"s", "u", "m">>
S_prod == <<"p", "r", "o", "d">>
S_lim == <<"l", "i", "m">>
S_mathrm == <<"m", "a", "t", "h", "r", "m">>
BS_left == <<BS>> \o S_left
BS_right == <<BS>> \o S_right
SumGlyph == <<"U+2211">>
IntGlyph == <<"U+222B">>

FunctionNames ==
    { <<"s", "i", "n">>, <<"c", "o", "s">>, <<"t", "a", "n">>,
      <<"l", "o", "g">>, <<"l", "n">>, <<"l", "g">>, <<"e", "x", "p">>,
      <<"s", "i", "n", "h">>, <<"c", "o", "s", "h">>,
      <<"a", "s", "i", "n">>, <<"a", "c", "o", "s">> }

\* Parser::symbols after InitSymbols; a glyph outside ASCII is one character
\* written by its code point.
symbols ==
    { [name |-> <<"A", "l", "p", "h", "a">>, glyph |-> <<"U+0391">>],
      [name |-> <<"B", "e", "t", "a">>, glyph |-> <<"U+0392">>],
      [name |-> <<"G", "a", "m", "m", "a">>, glyph |-> <<"U+0393">>],
      [name |-> <<"D", "e", "l", "t", "a">>, glyph |-> <<"U+0394">>],
      [name |-> <<"E", "p", "s", "i", "l", "o", "n">>, glyph |-> <<"U+0395">>],
      [name |-> <<"Z", "e", "t", "a">>, glyph |-> <<"U+0396">>],
      [name |-> <<"E", "t", "a">>, glyph |-> <<"U+0397">>],
      [name |-> <<"T", "h", "e", "t", "a">>, glyph |-> <<"U+0398">>],
      [name |-> <<"L", "a", "m", "b", "d", "a">>, glyph |-> <<"U+039B">>],
      [name |-> <<"X", "i">>, glyph |-> <<"U+039E">>],
      [name |-> <<"P", "i">>, glyph |-> <<"U+03A0">>],
      [name |-> <<"S", "i", "g", "m", "a">>, glyph |-> <<"U+03A3">>],
      [name |-> <<"P", "h", "i">>, glyph |-> <<"U+03A6">>],
      [name |-> <<"P", "s", "i">>, glyph |-> <<"U+03A8">>],
      [name |-> <<"O", "m", "e", "g", "a">>, glyph |-> <<"U+03A9">>],
      [name |-> <<"a", "l", "p", "h", "a">>, glyph |-> <<"U+03B1">>],
      [name |-> <<"b", "e", "t", "a">>, glyph |-> <<"U+03B2">>],
      [name |-> <<"g", "a", "m", "m", "a">>, glyph |-> <<"U+03B3">>],
      [name |-> <<"d", "e", "l", "t", "a">>, glyph |-> <<"U+03B4">>],
      [name |-> <<"e", "p", "s", "i", "l", "o", "n">>, glyph |-> <<"U+03B5">>],
      [name |-> <<"z", "e", "t", "a">>, glyph |-> <<"U+03B6">>],
      [name |-> <<"e", "t", "a">>, glyph |-> <<"U+03B7">>],
      [name |-> <<"t", "h", "e", "t", "a">>, glyph |-> <<"U+03B8">>],
      [name |-> <<"l", "a", "m", "b", "d", "a">>, glyph |-> <<"U+03BB">>],
      [name |-> <<"x", "i">>, glyph |-> <<"U+03BE">>],
      [name |-> <<"p", "i">>, glyph |-> <<"U+03C0">>],
      [name |-> <<"s", "i", "g", "m", "a">>, glyph |-> <<"U+03C3">>],
      [name |-> <<"p", "h", "i">>, glyph |-> <<"U+03C6">>],
      [name |-> <<"p", "s", "i">>, glyph |-> <<"U+03C8">>],
      [name |-> <<"o", "m", "e", "g", "a">>, glyph |-> <<"U+03C9">>],
      [name |-> <<"i", "n", "f", "t", "y">>, glyph |-> <<"U+221E">>],
      [name |-> <<"a", "p", "p", "r", "o", "x">>, glyph |-> <<"U+2248">>],
      [name |-> <<"n", "e", "q">>, glyph |-> <<"U+2260">>],
      [name |-> <<"l", "e">>, glyph |-> <<"U+2264">>],
      [name |-> <<"g", "e">>, glyph |-> <<"U+2265">>],
      [name |-> <<"p", "m">>, glyph |-> <<"U+00B1">>],
      [name |-> <<"c", "d", "o", "t">>, glyph |-> <<"U+2219">>],
      [name |-> <<"t", "o">>, glyph |-> <<"U+2192">>],
      [name |-> <<"t", "h", "i", "n", "s", "p", "a", "c", "e">>, glyph |-> <<" ">>],
      [name |-> <<"q", "u", "a", "d">>, glyph |-> <<" ", " ">>],
      [name |-> <<"!">>, glyph |-> <<>>],
      [name |-> <<",">>, glyph |-> <<>>],
      [name |-> <<"'">>, glyph |-> <<"'">>] }

symbolsCount(cmd) == \E e \in symbols : e.name = cmd
symbolsAt(cmd) == (CHOOSE e \in symbols : e.name = cmd).glyph

(* ----------------------------- C++ integers ---------------------------- *)

Max(a, b) == IF a > b THEN a ELSE b
Min(a, b) == IF a < b THEN a ELSE b

\* int / int truncates toward zero.
CDiv(a, b) == IF a >= 0 THEN a \div b ELSE -((-a) \div b)

\* (int)(n * f) for a decimal factor f = num/den: the product truncated
\* toward zero.  The double product truncates to this integer for the
\* factors 0.8, 0.5, 0.1 and 1.5 on every n >= 0, and for 0.7, 0.6 and 0.15
\* on every font size derived from BASE_FONT_SIZE (28, 19, 16, 13, 11, 9, 7,
\* 6, 5, 4, 3, 2, 1, 0).
Scale(n, num, den) == CDiv(n * num, den)

(* -------------------------------- nodes -------------------------------- *)

Null == [kind |-> "null"]

RowNode(ch) ==
    [kind |-> "RowNode", children |-> ch, width |-> 0, height |-> 0, ascent |-> 0]

TextNode(t, it, fs, offset) ==
    [kind |-> "TextNode", text |-> t, italic |-> it, fontSize |-> fs,
     hOffset |-> offset, width |-> 0, height |-> 0, ascent |-> 0]

FracNode(n, d, fs) ==
    [kind |-> "FracNode", num |-> n, den |-> d, fontSize |-> fs,
     width |-> 0, height |-> 0, ascent |-> 0]

ScriptNode(b) ==
    [kind |-> "ScriptNode", base |-> b, super |-> Null, sub |-> Null,
     width |-> 0, height |-> 0, ascent |-> 0]

BigOperatorNode(sym, fs, textMode) ==
    [kind |-> "BigOperatorNode", opSymbol |-> sym, lower |-> Null, upper |-> Null,
     fontSize |-> fs, isTextOp |-> textMode, width |-> 0, height |-> 0, ascent |-> 0]

IntegralNode(size) ==
    [kind |-> "IntegralNode", lower |-> Null, upper |-> Null, integrand |-> Null,
     baseSize |-> size, width |-> 0, height |-> 0, ascent |-> 0]

SqrtNode(c, idx) ==
    [kind |-> "SqrtNode", child |-> c, index |-> idx,
     width |-> 0, height |-> 0, ascent |-> 0]

ScalingFenceNode(c, l, r) ==
    [kind |-> "ScalingFenceNode", content |-> c, left |-> l, right |-> r,
     width |-> 0, height |-> 0, ascent |-> 0]

(* -------------------------------- Parser ------------------------------- *)

Peek(s, p) == IF p < Len(s) THEN s[p + 1] ELSE NUL

\* Next(): the cursor after the call; the character it returns is Peek(s, p).
NextPos(s, p) == IF p < Len(s) THEN p + 1 ELSE p

\* wstring::substr(p, n), for p <= length
substr(s, p, n) == SubSeq(s, p + 1, Min(p + n, Len(s)))

\* while (pos < source.length() && depth > 0) of the brace block
BraceLoop(s, p, depth, res) ==
    IF p < Len(s) /\ depth > 0
    THEN LET c == Peek(s, p)
             d == IF c = "{" THEN depth + 1
                  ELSE IF c = "}" THEN depth - 1 ELSE depth
         IN  BraceLoop(s, NextPos(s, p), d, IF d > 0 THEN Append(res, c) ELSE res)
    ELSE [str |-> res, pos |-> p]

\* while (pos < source.length() && Peek() != ']') of the bracket block
BracketLoop(s, p, res) ==
    IF p < Len(s) /\ Peek(s, p) # "]"
    THEN BracketLoop(s, NextPos(s, p), Append(res, Peek(s, p)))
    ELSE [str |-> res, pos |-> IF p < Len(s) THEN NextPos(s, p) ELSE p]

ParseBlockStr(s, p) ==
    IF Peek(s, p) = "{" THEN BraceLoop(s, NextPos(s, p), 1, <<>>)
    ELSE IF Peek(s, p) = "[" THEN BracketLoop(s, NextPos(s, p), <<>>)
    ELSE IF p < Len(s) THEN [str |-> <<Peek(s, p)>>, pos |-> NextPos(s, p)]
    ELSE [str |-> <<>>, pos |-> p]

\* A fresh Parser over an extracted substring, then Parse() on it.  The
\* recursion is entered only over a string shorter than the parent's input;
\* otherwise the result is flagged (ok = FALSE) instead of being computed.
SubParse(parent, str, fs) ==
    IF Len(str) < Len(parent) THEN Parse(str, fs)
    ELSE [row |-> RowNode(<<>>), pos |-> 0, ok |-> FALSE]

\* Variant of AttachScript: a new ScriptNode for every suffix, an existing
\* wrapper not reused
AttachScriptAlwaysWrap(base, bigOp, type, scriptContent) ==
    IF bigOp
    THEN IF type = "^" THEN [base EXCEPT !.upper = scriptContent]
         ELSE [base EXCEPT !.lower = scriptContent]
    ELSE IF type = "^" THEN [ScriptNode(base) EXCEPT !.super = scriptContent]
         ELSE [ScriptNode(base) EXCEPT !.sub = scriptContent]

\* Variant of AttachScript: the limits of a big operator exchanged
AttachScriptSwapped(base, bigOp, type, scriptContent) ==
    IF bigOp
    THEN IF type = "^" THEN [base EXCEPT !.lower = scriptContent]
         ELSE [base EXCEPT !.upper = scriptContent]
    ELSE LET script == IF base.kind = "ScriptNode" THEN base ELSE ScriptNode(base)
         IN  IF type = "^" THEN [script EXCEPT !.super = scriptContent]
             ELSE [script EXCEPT !.sub = scriptContent]

\* The body of the script loop after the block was parsed (lines 487-496).
AttachScript(base, bigOp, type, scriptContent) ==
    IF bigOp
    THEN IF type = "^" THEN [base EXCEPT !.upper = scriptContent]
         ELSE [base EXCEPT !.lower = scriptContent]
    ELSE LET script == IF base.kind = "ScriptNode" THEN base ELSE ScriptNode(base)
         IN  IF type = "^" THEN [script EXCEPT !.super = scriptContent]
             ELSE [script EXCEPT !.sub = scriptContent]

\* Variant of IsBigOperator: the cast of the base never succeeds
IsBigOperatorNever(base) == FALSE

\* dynamic_pointer_cast<BigOperatorNode>(base) is non-null
IsBigOperator(base) == base.kind = "BigOperatorNode"

\* Font size of a script block
ScriptFontSize(fs) == Scale(fs, 7, 10)

\* while (Peek() == '^' || Peek() == '_'): blk is the block read after the
\* suffix character, pSub the parse of its text
ScriptLoop(s, p, fs, base, bigOp, ok) ==
    IF Peek(s, p) = "^" \/ Peek(s, p) = "_"
    THEN LET attach(blk, pSub) ==
                 IF blk.pos > p /\ blk.pos <= Len(s)
                 THEN ScriptLoop(s, blk.pos, fs,
                                 AttachScript(base, bigOp, Peek(s, p), pSub.row),
                                 bigOp, ok /\ pSub.ok)
                 ELSE [node |-> AttachScript(base, bigOp, Peek(s, p), pSub.row),
                       pos |-> blk.pos, ok |-> FALSE]
             block(blk) == attach(blk, SubParse(s, blk.str, ScriptFontSize(fs)))
         IN  block(ParseBlockStr(s, NextPos(s, p)))
    ELSE [node |-> base, pos |-> p, ok |-> ok]

CheckForScripts(s, p, fs, base) ==
    ScriptLoop(s, p, fs, base, IsBigOperator(base), TRUE)

\* while (iswdigit(Peek()) || Peek() == '.') num += Next();
DigitRun(s, p, res) ==
    IF iswdigit(Peek(s, p)) \/ Peek(s, p) = "."
    THEN DigitRun(s, NextPos(s, p), Append(res, Peek(s, p)))
    ELSE [str |-> res, pos |-> p]

\* while (iswalpha(Peek())) cmd += Next();
AlphaRun(s, p, res) ==
    IF iswalpha(Peek(s, p))
    THEN AlphaRun(s, NextPos(s, p), Append(res, Peek(s, p)))
    ELSE [str |-> res, pos |-> p]

\* The \left scan for the matching \right: the cursor where it stops.
LeftScan(s, p, depth) ==
    IF p < Len(s)
    THEN LET d == IF substr(s, p, 5) = BS_left THEN depth + 1 ELSE depth
         IN  IF substr(s, p, 6) = BS_right
             THEN IF d = 0 THEN p ELSE LeftScan(s, p + 1, d - 1)
             ELSE LeftScan(s, p + 1, d)
    ELSE p

\* Variant of LeftInner: the text taken from the start of the input, so that
\* the \left just read is parsed again
LeftInnerFromStart(s, startPos, endPos) == substr(s, 0, endPos)

\* The text handed to the content parser of \left
LeftInner(s, startPos, endPos) == substr(s, startPos, endPos - startPos)

\* The \left branch from the cursor q after the command name: startPos is the
\* cursor after the left delimiter, endPos where the scan stopped, p the
\* content parser after Parse(), p2 the cursor after a \right
ParseLeft(s, q, fs) ==
    LET leftDelim == IF Peek(s, q) # NUL THEN <<Peek(s, q)>> ELSE <<>>
        fence(p, p2) ==
            LET hasR == Peek(s, p2) # NUL
                p3 == IF hasR THEN NextPos(s, p2) ELSE p2
                again == ~hasR /\ p3 < Len(s)
            IN  [node |-> ScalingFenceNode(
                              p.row, leftDelim,
                              IF hasR THEN <<Peek(s, p2)>>
                              ELSE IF again THEN <<Peek(s, p3)>> ELSE <<>>),
                 pos |-> IF again THEN NextPos(s, p3) ELSE p3,
                 ok |-> p.ok]
        content(startPos, endPos) ==
            fence(SubParse(s, LeftInner(s, startPos, endPos), fs),
                  IF substr(s, endPos, 6) = BS_right THEN endPos + 6 ELSE endPos)
        scan(startPos) == content(startPos, LeftScan(s, startPos, 0))
    IN  scan(IF Peek(s, q) # NUL THEN NextPos(s, q) ELSE q)

ParseFrac(s, q, fs) ==
    LET build(bD, pN, pD) ==
            [node |-> FracNode(pN.row, pD.row, fs), pos |-> bD.pos,
             ok |-> pN.ok /\ pD.ok]
        blocks(bN, bD) == build(bD, SubParse(s, bN.str, fs), SubParse(s, bD.str, fs))
        first(bN) == blocks(bN, ParseBlockStr(s, bN.pos))
    IN  first(ParseBlockStr(s, q))

ParseSqrt(s, q, fs) ==
    LET build(b, pIdx, p) ==
            [node |-> SqrtNode(p.row, pIdx.row), pos |-> b.pos, ok |-> pIdx.ok /\ p.ok]
        radicand(pIdx, b) == build(b, pIdx, SubParse(s, b.str, fs))
        index(bI) ==
            radicand(IF Peek(s, q) = "["
                     THEN SubParse(s, bI.str, Scale(fs, 6, 10))
                     ELSE [row |-> Null, pos |-> 0, ok |-> TRUE],
                     ParseBlockStr(s, bI.pos))
    IN  index(IF Peek(s, q) = "[" THEN ParseBlockStr(s, q)
              ELSE [str |-> <<>>, pos |-> q])

\* The command-name scan of ParseCommand (line 546)
CommandName(s, p) == AlphaRun(s, p, <<>>)

ParseCommand(s, p, fs) ==
    LET leaf(q, n) == [node |-> n, pos |-> q, ok |-> TRUE]
        mathrm(content) ==
            [node |-> TextNode(content.str, FALSE, fs, 0), pos |-> content.pos,
             ok |-> TRUE]
        dispatch(cmd, q) ==
            IF cmd = S_left THEN ParseLeft(s, q, fs)
            ELSE IF cmd = S_frac THEN ParseFrac(s, q, fs)
            ELSE IF cmd = S_sqrt THEN ParseSqrt(s, q, fs)
            ELSE IF cmd = S_int THEN leaf(q, IntegralNode(fs))
            ELSE IF cmd = S_sum \/ cmd = S_prod
                 THEN leaf(q, BigOperatorNode(SumGlyph, fs, FALSE))
            ELSE IF cmd = S_lim THEN leaf(q, BigOperatorNode(S_lim, fs, TRUE))
            ELSE IF cmd = S_mathrm THEN mathrm(ParseBlockStr(s, q))
            ELSE IF cmd = <<"!">>
                 THEN leaf(q, TextNode(<<>>, FALSE, fs, Scale(-fs, 15, 100)))
            ELSE IF cmd = <<",">>
                 THEN leaf(q, TextNode(<<>>, FALSE, fs, Scale(fs, 15, 100)))
            ELSE IF cmd \in FunctionNames THEN leaf(q, TextNode(cmd, FALSE, fs, 0))
            ELSE IF symbolsCount(cmd) THEN leaf(q, TextNode(symbolsAt(cmd), FALSE, fs, 0))
            ELSE leaf(q, TextNode(<<"?">>, FALSE, fs, 0))
        named(name) == dispatch(name.str, name.pos)
    IN  named(CommandName(s, p))

ParseItem(s, p, fs) ==
    LET number(num) ==
            [node |-> TextNode(num.str, FALSE, fs, 0), pos |-> num.pos, ok |-> TRUE]
        item(c, q) ==
            IF c = BS THEN ParseCommand(s, q, fs)
            ELSE IF iswdigit(c) THEN number(DigitRun(s, q, <<c>>))
            ELSE IF iswalpha(c)
                 THEN [node |-> TextNode(<<c>>, TRUE, fs, 0), pos |-> q, ok |-> TRUE]
            ELSE [node |-> TextNode(<<c>>, FALSE, fs, 0), pos |-> q, ok |-> TRUE]
    IN  IF p >= Len(s) THEN [node |-> Null, pos |-> p, ok |-> TRUE]
        ELSE item(Peek(s, p), NextPos(s, p))

\* The loop of Parse().  ok records that every iteration so far moved the
\* cursor forward within the input and every sub-parse was flagged ok; an
\* iteration that does not is reported instead of repeated.
ParseLoop(s, p, fs, children, ok) ==
    LET add(item, node) ==
            IF node.pos > p /\ node.pos <= Len(s)
            THEN ParseLoop(s, node.pos, fs,
                           IF item.node # Null THEN Append(children, node.node)
                           ELSE children,
                           ok /\ item.ok /\ node.ok)
            ELSE [row |-> RowNode(IF item.node # Null THEN Append(children, node.node)
                                  ELSE children),
                  pos |-> node.pos, ok |-> FALSE]
        scripts(item) ==
            add(item, IF item.node # Null
                      THEN CheckForScripts(s, item.pos, fs, item.node)
                      ELSE item)
    IN  IF p < Len(s) /\ Peek(s, p) # "}" /\ Peek(s, p) # "]"
        THEN scripts(ParseItem(s, p, fs))
        ELSE [row |-> RowNode(children), pos |-> p, ok |-> ok]

Parse(s, fs) == ParseLoop(s, 0, fs, <<>>, TRUE)

(* ------------------------------- Renderer ------------------------------ *)

\* The text metrics are the renderer's answers, outside the program: a
\* profile fixes the line height and the character widths as percentages of
\* the font size in force.  All answers are non-negative.
Profiles ==
    { [hPct |-> 100, widePct |-> 50, narrowPct |-> 25],
      [hPct |-> 115, widePct |-> 60, narrowPct |-> 30] }

NarrowChars == {" ", ".", ",", "!", "'", "i", "l", "1", "|", "(", ")", "[", "]"}

GDIRenderer(prof) ==
    [kind |-> "gdi", currentFontSize |-> BASE_FONT_SIZE, isItalic |-> FALSE,
     prof |-> prof]

\* The SVG renderer measures through a GDIRenderer of its own, set to the
\* same font size and style: the same metrics
SVGRenderer(prof) ==
    [kind |-> "svg", currentFontSize |-> BASE_FONT_SIZE, isItalic |-> FALSE,
     prof |-> prof]

SetFontSize(r, size) == [r EXCEPT !.currentFontSize = size]
SetFontStyle(r, italic) == [r EXCEPT !.isItalic = italic]

CharWidth(r, c) ==
    LET pct == IF c \in NarrowChars THEN r.prof.narrowPct ELSE r.prof.widePct
        w == (r.currentFontSize * pct) \div 100
    IN  IF r.isItalic THEN (w * 9) \div 10 ELSE w

SumWidths(r, text) ==
    IF text = <<>> THEN 0
    ELSE CharWidth(r, Head(text)) + SumWidths(r, Tail(text))

GetTextWidth(r, text) == SumWidths(r, text)
GetTextHeight(r) == (r.currentFontSize * r.prof.hPct) \div 100

Line(x1, y1, x2, y2) ==
    [op |-> "line", x1 |-> x1, y1 |-> y1, x2 |-> x2, y2 |-> y2,
     text |-> <<>>, size |-> 0, italic |-> FALSE]

\* TextOut at (x, y)
GDIDrawTextStr(r, x, y, text) ==
    [op |-> "text", x1 |-> x, y1 |-> y, x2 |-> x, y2 |-> y,
     text |-> text, size |-> r.currentFontSize, italic |-> r.isItalic]

\* A <text> element at the baseline, 80% of the font size below y
SVGDrawTextStr(r, x, y, text) ==
    LET baselineY == y + Scale(r.currentFontSize, 8, 10)
    IN  [op |-> "text", x1 |-> x, y1 |-> baselineY, x2 |-> x, y2 |-> baselineY,
         text |-> text, size |-> r.currentFontSize, italic |-> r.isItalic]

\* The virtual call r->DrawTextStr(x, y, text)
DrawTextStr(r, x, y, text) ==
    IF r.kind = "svg" THEN SVGDrawTextStr(r, x, y, text)
    ELSE GDIDrawTextStr(r, x, y, text)

(* ------------------------------- Measure ------------------------------- *)

Geom(node, w, h, a) == [node EXCEPT !.width = w, !.height = h, !.ascent = a]

\* Variant of RowWidthStart: the width not reset before the accumulation
RowWidthStartKeep(node) == node.width

\* RowNode::Measure line 148: the width the accumulation starts from
RowWidthStart(node) == 0

\* The loop of RowNode::Measure from child i on
MeasureRow(ch, i, r, width, maxAscent, maxDescent, done) ==
    IF i > Len(ch)
    THEN [children |-> done, r |-> r, width |-> width,
          maxAscent |-> maxAscent, maxDescent |-> maxDescent]
    ELSE LET m == Measure(ch[i], r)
             c == m.node
             descent == c.height - c.ascent
         IN  MeasureRow(ch, i + 1, m.r, width + c.width,
                        IF c.ascent > maxAscent THEN c.ascent ELSE maxAscent,
                        IF descent > maxDescent THEN descent ELSE maxDescent,
                        Append(done, c))

MeasureRowNode(node, r) ==
    LET l == MeasureRow(node.children, 1, r, RowWidthStart(node), 0, 0, <<>>)
    IN  [node |-> Geom([node EXCEPT !.children = l.children],
                       l.width, l.maxAscent + l.maxDescent, l.maxAscent),
         r |-> l.r]

MeasureTextNode(node, r) ==
    LET r2 == SetFontStyle(SetFontSize(r, node.fontSize), node.italic)
        h == GetTextHeight(r2)
    IN  [node |-> Geom(node, GetTextWidth(r2, node.text) + node.hOffset, h,
                       Scale(h, 8, 10)),
         r |-> r2]

MeasureFracNode(node, r) ==
    LET n == Measure(node.num, r)
        d == Measure(node.den, n.r)
    IN  [node |-> Geom([node EXCEPT !.num = n.node, !.den = d.node],
                       Max(n.node.width, d.node.width) + 10,
                       n.node.height + d.node.height + 4,
                       n.node.height + 2),
         r |-> d.r]

\* Measure of an optional child: a null pointer is skipped.
MeasureOpt(node, r) ==
    IF node = Null THEN [node |-> Null, r |-> r] ELSE Measure(node, r)

MeasureScriptNode(node, r) ==
    LET b == Measure(node.base, r)
        sp == MeasureOpt(node.super, b.r)
        sb == MeasureOpt(node.sub, sp.r)
        hasSuper == node.super # Null
        hasSub == node.sub # Null
        w1 == IF hasSuper THEN Max(0, sp.node.width) ELSE 0
        scriptW == IF hasSub THEN Max(w1, sb.node.width) ELSE w1
        ascent == IF hasSuper
                  THEN Max(b.node.ascent, sp.node.height + CDiv(b.node.ascent, 2))
                  ELSE b.node.ascent
        height == IF hasSub THEN Max(b.node.height, sb.node.height + ascent)
                  ELSE b.node.height
    IN  [node |-> Geom([node EXCEPT !.base = b.node, !.super = sp.node, !.sub = sb.node],
                       b.node.width + scriptW, height, ascent),
         r |-> sb.r]

MeasureBigOperatorNode(node, r) ==
    LET r2 == SetFontStyle(
                  SetFontSize(r, IF node.isTextOp THEN node.fontSize
                                 ELSE Scale(node.fontSize, 15, 10)), FALSE)
        baseW == GetTextWidth(r2, node.opSymbol)
        baseH == GetTextHeight(r2)
        lo == MeasureOpt(node.lower, r2)
        up == MeasureOpt(node.upper, lo.r)
        lowW == IF node.lower # Null THEN lo.node.width ELSE 0
        lowH == IF node.lower # Null THEN lo.node.height ELSE 0
        upW == IF node.upper # Null THEN up.node.width ELSE 0
        upH == IF node.upper # Null THEN up.node.height ELSE 0
        topPart == upH + Scale(baseH, 8, 10)
        botPart == (baseH - Scale(baseH, 8, 10)) + lowH
    IN  [node |-> Geom([node EXCEPT !.lower = lo.node, !.upper = up.node],
                       Max(baseW, Max(lowW, upW)) + 4, topPart + botPart, topPart),
         r |-> up.r]

MeasureIntegralNode(node, r) ==
    LET r2 == SetFontStyle(SetFontSize(r, Scale(node.baseSize, 15, 10)), FALSE)
        intW == GetTextWidth(r2, IntGlyph)
        intH == GetTextHeight(r2)
        up == MeasureOpt(node.upper, r2)
        lo == MeasureOpt(node.lower, up.r)
        w1 == IF node.upper # Null THEN Max(0, up.node.width) ELSE 0
        h1 == IF node.upper # Null THEN up.node.height ELSE 0
        limitsW == IF node.lower # Null THEN Max(w1, lo.node.width) ELSE w1
        limitsH == IF node.lower # Null THEN h1 + lo.node.height ELSE h1
    IN  [node |-> Geom([node EXCEPT !.upper = up.node, !.lower = lo.node],
                       intW + limitsW + 4, Max(intH, limitsH), CDiv(intH, 2)),
         r |-> lo.r]

MeasureSqrtNode(node, r) ==
    LET c == Measure(node.child, r)
        ix == MeasureOpt(node.index, c.r)
        hasIndex == node.index # Null
        w0 == c.node.width + 15
        h0 == c.node.height + 5
        a0 == c.node.ascent + 5
        width == IF hasIndex THEN w0 + Max(0, ix.node.width - 5) ELSE w0
        ascent == IF hasIndex THEN Max(a0, ix.node.height + 5) ELSE a0
        height == IF hasIndex
                  THEN Max(h0, ascent + (c.node.height - c.node.ascent))
                  ELSE h0
    IN  [node |-> Geom([node EXCEPT !.child = c.node, !.index = ix.node],
                       width, height, ascent),
         r |-> ix.r]

MeasureScalingFenceNode(node, r) ==
    LET c == Measure(node.content, r)
    IN  [node |-> Geom([node EXCEPT !.content = c.node],
                       c.node.width + 14, c.node.height, c.node.ascent),
         r |-> c.r]

\* MathNode::Measure, dispatched on the node's dynamic type
Measure(node, r) ==
    CASE node.kind = "RowNode" -> MeasureRowNode(node, r)
      [] node.kind = "TextNode" -> MeasureTextNode(node, r)
      [] node.kind = "FracNode" -> MeasureFracNode(node, r)
      [] node.kind = "ScriptNode" -> MeasureScriptNode(node, r)
      [] node.kind = "BigOperatorNode" -> MeasureBigOperatorNode(node, r)
      [] node.kind = "IntegralNode" -> MeasureIntegralNode(node, r)
      [] node.kind = "SqrtNode" -> MeasureSqrtNode(node, r)
      [] node.kind = "ScalingFenceNode" -> MeasureScalingFenceNode(node, r)

(* --------------------------------- Draw -------------------------------- *)

\* A Draw call yields the renderer's font state after it, the primitives it
\* emitted in order, and the Draw calls made (the node's path from the root,
\* with the x and y it was given).  A path step is the child's number:
\* RowNode children 1..n; FracNode num 1, den 2; ScriptNode base 1, super 2,
\* sub 3; BigOperatorNode and IntegralNode upper 1, lower 2; SqrtNode index 1,
\* child 2; ScalingFenceNode content 1.
Drawn(r, o, c) == [r |-> r, out |-> o, calls |-> c]
Call(path, x, y) == [path |-> path, x |-> x, y |-> y]

DrawOpt(node, r, x, y, path) ==
    IF node = Null THEN Drawn(r, <<>>, <<>>) ELSE Draw(node, r, x, y, path)

\* Variant of RowChildY: every child drawn at the row's own y
RowChildYTop(node, c, y) == y

\* RowNode::Draw: the y given to child c
RowChildY(node, c, y) == y + (node.ascent - c.ascent)

\* The loop of RowNode::Draw from child i on
DrawRow(node, i, r, curX, y, path, acc) ==
    IF i > Len(node.children) THEN Drawn(r, acc.out, acc.calls)
    ELSE LET c == node.children[i]
             d == Draw(c, r, curX, RowChildY(node, c, y), Append(path, i))
         IN  DrawRow(node, i + 1, d.r, curX + c.width, y, path,
                     [out |-> acc.out \o d.out, calls |-> acc.calls \o d.calls])

DrawRowNode(node, r, x, y, path) ==
    DrawRow(node, 1, r, x, y, path, [out |-> <<>>, calls |-> <<>>])

DrawTextNode(node, r, x, y, path) ==
    LET r2 == SetFontStyle(SetFontSize(r, node.fontSize), node.italic)
    IN  Drawn(r2, <<DrawTextStr(r2, x + node.hOffset, y, node.text)>>, <<>>)

DrawFracNode(node, r, x, y, path) ==
    LET midX == x + CDiv(node.width, 2)
        n == Draw(node.num, r, midX - CDiv(node.num.width, 2), y, Append(path, 1))
        lineY == y + node.num.height + 2
        d == Draw(node.den, n.r, midX - CDiv(node.den.width, 2), lineY + 2,
                  Append(path, 2))
    IN  Drawn(d.r, n.out \o <<Line(x, lineY, x + node.width, lineY)>> \o d.out,
              n.calls \o d.calls)

DrawScriptNode(node, r, x, y, path) ==
    LET b == Draw(node.base, r, x, y + (node.ascent - node.base.ascent),
                  Append(path, 1))
        scriptX == x + node.base.width
        baseY == y + (node.ascent - node.base.ascent)
        sp == IF node.super = Null THEN Drawn(b.r, <<>>, <<>>)
              ELSE Draw(node.super, b.r, scriptX,
                        baseY - Scale(node.super.height, 5, 10), Append(path, 2))
        sb == IF node.sub = Null THEN Drawn(sp.r, <<>>, <<>>)
              ELSE Draw(node.sub, sp.r, scriptX,
                        baseY + node.base.height - node.base.ascent
                            + Scale(node.sub.height, 1, 10),
                        Append(path, 3))
    IN  Drawn(sb.r, b.out \o sp.out \o sb.out, b.calls \o sp.calls \o sb.calls)

DrawBigOperatorNode(node, r, x, y, path) ==
    LET midX == x + CDiv(node.width, 2)
        up == IF node.upper = Null THEN Drawn(r, <<>>, <<>>)
              ELSE Draw(node.upper, r, midX - CDiv(node.upper.width, 2), y,
                        Append(path, 1))
        r2 == SetFontStyle(
                  SetFontSize(up.r, IF node.isTextOp THEN node.fontSize
                                    ELSE Scale(node.fontSize, 15, 10)), FALSE)
        opW == GetTextWidth(r2, node.opSymbol)
        opH == GetTextHeight(r2)
        opY == y + (IF node.upper # Null THEN node.upper.height ELSE 0)
        lo == IF node.lower = Null THEN Drawn(r2, <<>>, <<>>)
              ELSE Draw(node.lower, r2, midX - CDiv(node.lower.width, 2), opY + opH,
                        Append(path, 2))
    IN  Drawn(lo.r,
              up.out \o <<DrawTextStr(r2, midX - CDiv(opW, 2), opY, node.opSymbol)>>
                     \o lo.out,
              up.calls \o lo.calls)

DrawIntegralNode(node, r, x, y, path) ==
    LET r2 == SetFontStyle(SetFontSize(r, Scale(node.baseSize, 15, 10)), FALSE)
        intW == GetTextWidth(r2, IntGlyph)
        intH == GetTextHeight(r2)
        opY == y + (node.ascent - CDiv(intH, 2))
        limX == x + intW + 2
        up == DrawOpt(node.upper, r2, limX, opY + 2, Append(path, 1))
        lo == IF node.lower = Null THEN Drawn(up.r, <<>>, <<>>)
              ELSE Draw(node.lower, up.r, limX, opY + intH - node.lower.height - 2,
                        Append(path, 2))
    IN  Drawn(lo.r, <<DrawTextStr(r2, x, opY, IntGlyph)>> \o up.out \o lo.out,
              up.calls \o lo.calls)

\* startX of SqrtNode::Draw: x moved right by the room left for the index
SqrtStartX(node, x) ==
    IF node.index # Null THEN x + Max(5, node.index.width) ELSE x

\* The three segments SqrtNode::Draw emits: hook, rising stroke, top bar
SqrtLines(node, x, y) ==
    LET startX == SqrtStartX(node, x)
        bottomY == y + node.ascent + (node.child.height - node.child.ascent)
        topY == y + (node.ascent - node.child.ascent - 5)
    IN  << Line(startX, bottomY - CDiv(bottomY - topY, 2), startX + 5, bottomY),
           Line(startX + 5, bottomY, startX + 10, topY),
           Line(startX + 10, topY, startX + node.child.width + 15, topY) >>

DrawSqrtNode(node, r, x, y, path) ==
    LET ix == DrawOpt(node.index, r, x, y, Append(path, 1))
        c == Draw(node.child, ix.r, SqrtStartX(node, x) + 10,
                  y + (node.ascent - node.child.ascent - 5) + 5, Append(path, 2))
    IN  Drawn(c.r, ix.out \o c.out \o SqrtLines(node, x, y), ix.calls \o c.calls)

\* The segments ScalingFenceNode::Draw emits for the left delimiter
FenceLeftLines(node, x, y) ==
    LET h == node.height
    IN  IF node.left = <<"|">> THEN << Line(x + 2, y, x + 2, y + h) >>
        ELSE IF node.left = <<"(">>
             THEN << Line(x + 5, y, x + 1, y + CDiv(h, 2)),
                     Line(x + 1, y + CDiv(h, 2), x + 5, y + h) >>
        ELSE IF node.left = <<"[">>
             THEN << Line(x + 5, y, x + 5, y + h),
                     Line(x + 5, y, x + 10, y),
                     Line(x + 5, y + h, x + 10, y + h) >>
        ELSE <<>>

\* Variant of FenceRightLines: the strokes end at half the height
FenceRightLinesHalf(node, x, y) ==
    LET h == CDiv(node.height, 2)
        w == node.width
    IN  IF node.right = <<"|">> THEN << Line(x + w - 2, y, x + w - 2, y + h) >>
        ELSE IF node.right = <<")">>
             THEN << Line(x + w - 5, y, x + w - 1, y + CDiv(h, 2)),
                     Line(x + w - 1, y + CDiv(h, 2), x + w - 5, y + h) >>
        ELSE IF node.right = <<"]">>
             THEN << Line(x + w - 5, y, x + w - 5, y + h),
                     Line(x + w - 5, y, x + w - 10, y),
                     Line(x + w - 5, y + h, x + w - 10, y + h) >>
        ELSE <<>>

\* The segments ScalingFenceNode::Draw emits for the right delimiter
FenceRightLines(node, x, y) ==
    LET h == node.height
        w == node.width
    IN  IF node.right = <<"|">> THEN << Line(x + w - 2, y, x + w - 2, y + h) >>
        ELSE IF node.right = <<")">>
             THEN << Line(x + w - 5, y, x + w - 1, y + CDiv(h, 2)),
                     Line(x + w - 1, y + CDiv(h, 2), x + w - 5, y + h) >>
        ELSE IF node.right = <<"]">>
             THEN << Line(x + w - 5, y, x + w - 5, y + h),
                     Line(x + w - 5, y, x + w - 10, y),
                     Line(x + w - 5, y + h, x + w - 10, y + h) >>
        ELSE <<>>

DrawScalingFenceNode(node, r, x, y, path) ==
    LET c == Draw(node.content, r, x + 7, y, Append(path, 1))
    IN  Drawn(c.r, c.out \o FenceLeftLines(node, x, y) \o FenceRightLines(node, x, y),
              c.calls)

\* MathNode::Draw, dispatched on the node's dynamic type
Draw(node, r, x, y, path) ==
    LET d == CASE node.kind = "RowNode" -> DrawRowNode(node, r, x, y, path)
               [] node.kind = "TextNode" -> DrawTextNode(node, r, x, y, path)
               [] node.kind = "FracNode" -> DrawFracNode(node, r, x, y, path)
               [] node.kind = "ScriptNode" -> DrawScriptNode(node, r, x, y, path)
               [] node.kind = "BigOperatorNode" -> DrawBigOperatorNode(node, r, x, y, path)
               [] node.kind = "IntegralNode" -> DrawIntegralNode(node, r, x, y, path)
               [] node.kind = "SqrtNode" -> DrawSqrtNode(node, r, x, y, path)
               [] node.kind = "ScalingFenceNode" -> DrawScalingFenceNode(node, r, x, y, path)
    IN  Drawn(d.r, d.out, <<Call(path, x, y)>> \o d.calls)

(* ---------------------------- tree traversal --------------------------- *)

\* The owned children of a node, in path-step order (absent ones as Null)
Children(node) ==
    CASE node.kind = "RowNode" -> node.children
      [] node.kind = "TextNode" -> <<>>
      [] node.kind = "FracNode" -> <<node.num, node.den>>
      [] node.kind = "ScriptNode" -> <<node.base, node.super, node.sub>>
      [] node.kind = "BigOperatorNode" -> <<node.upper, node.lower>>
      [] node.kind = "IntegralNode" -> <<node.upper, node.lower>>
      [] node.kind = "SqrtNode" -> <<node.index, node.child>>
      [] node.kind = "ScalingFenceNode" -> <<node.content>>
      [] node.kind = "null" -> <<>>

\* Every node of the tree rooted at node
AllNodes(node) ==
    IF node = Null THEN {}
    ELSE {node} \cup UNION { AllNodes(Children(node)[i]) : i \in DOMAIN Children(node) }

\* The node a path leads to
NodeAt(node, path) ==
    IF path = <<>> THEN node ELSE NodeAt(Children(node)[Head(path)], Tail(path))

(* ------------------------------- inputs -------------------------------- *)

\* Longest generic markup, in fragments
MaxFrags == 2

\* The pieces generic markups are made of: well- and ill-formed markup alike
Fragments ==
    { <<"x">>,
      <<"1">>,
      <<"^">>,
      <<"_">>,
      <<"{">>,
      <<"}">>,
      <<"[">>,
      <<"]">>,
      <<"(">>,
      <<BS, "f", "r", "a", "c">>,
      <<BS, "s", "q", "r", "t">>,
      <<BS, "l", "e", "f", "t">>,
      <<BS, "r", "i", "g", "h", "t">>,
      <<BS, "i", "n", "t">>,
      <<BS, "s", "u", "m">> }

SeqsUpTo(S, n) ==
    IF n = 0 THEN {<<>>}
    ELSE LET shorter == SeqsUpTo(S, n - 1)
         IN  shorter \cup { Append(q, e) : q \in shorter, e \in S }

Flatten(q) == IF q = <<>> THEN <<>> ELSE Head(q) \o Flatten(Tail(q))

FragmentFormulas == { Flatten(q) : q \in SeqsUpTo(Fragments, MaxFrags) }

\* Base items for script suffixes
ScriptBases ==
    { <<"x">>,
      <<"1", "2">>,
      <<"+">>,
      <<BS, "a", "l", "p", "h", "a">>,
      <<BS, "s", "i", "n">>,
      <<BS, "f", "r", "a", "c", "{", "1", "}", "{", "2", "}">>,
      <<BS, "s", "q", "r", "t", "{", "x", "}">>,
      <<BS, "s", "q", "r", "t", "[", "3", "]", "{", "x", "}">>,
      <<BS, "l", "e", "f", "t", "(", "x", BS, "r", "i", "g", "h", "t", ")">>,
      <<BS, "i", "n", "t">>,
      <<BS, "m", "a", "t", "h", "r", "m", "{", "d", "}">> }

\* Argument blocks: the markup of the block and the text it encloses
Blocks ==
    { [text |-> <<"{", "2", "}">>, content |-> <<"2">>],
      [text |-> <<"2">>, content |-> <<"2">>],
      [text |-> <<"n">>, content |-> <<"n">>],
      [text |-> <<"{", "n", "+", "1", "}">>, content |-> <<"n", "+", "1">>],
      [text |-> <<"{", "x", "_", "1", "}">>, content |-> <<"x", "_", "1">>],
      [text |-> <<"{", "}">>, content |-> <<>>],
      [text |-> <<"[", "k", "]">>, content |-> <<"k">>],
      [text |-> <<"{", BS, "f", "r", "a", "c", "{", "1", "}", "{", "2", "}", "}">>, content |-> <<BS, "f", "r", "a", "c", "{", "1", "}", "{", "2", "}">>] }

SuperFirst(base, A, B) == base \o <<"^">> \o A.text \o <<"_">> \o B.text
SubFirst(base, A, B) == base \o <<"_">> \o B.text \o <<"^">> \o A.text

ScriptFormulas ==
    { SuperFirst(b, A, B) : b \in ScriptBases, A \in Blocks, B \in Blocks }
    \cup { SubFirst(b, A, B) : b \in ScriptBases, A \in Blocks, B \in Blocks }

\* Longest run of limit suffixes after a big operator command
MaxSuffixes == 2

\* The commands that produce a BigOperatorNode
BigOperatorCommands == { <<BS>> \o S_sum, <<BS>> \o S_prod, <<BS>> \o S_lim }

\* Blocks used as limits: braced, bare, and with a script of their own
LimitBlocks ==
    { blk \in Blocks : blk.text \in { <<"{", "2", "}">>, <<"n">>,
                                      <<"{", "x", "_", "1", "}">> } }

\* One suffix: ^ or _ and the block after it
Suffixes == [type : {"^", "_"}, blk : LimitBlocks]

SuffixRuns == SeqsUpTo(Suffixes, MaxSuffixes)

SuffixText(q) == Flatten([i \in 1..Len(q) |-> <<q[i].type>> \o q[i].blk.text])

BigOperatorMarkup(cmd, q) == cmd \o SuffixText(q)

BigOperatorFormulas ==
    { BigOperatorMarkup(cmd, q) : cmd \in BigOperatorCommands, q \in SuffixRuns }

\* Delimiter characters after \left and \right, and fenced contents
FenceDelims == {"(", ")", "[", "]", "|", ".", "x"}
FenceContents ==
    { <<"x">>,
      <<BS, "f", "r", "a", "c", "{", "1", "}", "{", "2", "}">>,
      <<"x", "^", "2">>,
      <<BS, "f", "r", "a", "c", "{", BS, "f", "r", "a", "c", "{", "1", "}", "{", "2", "}", "}", "{", "x", "}">> }

FenceFormula(l, c, r) == BS_left \o <<l>> \o c \o BS_right \o <<r>>

FenceFormulas ==
    { FenceFormula(l, c, r) : l \in FenceDelims, c \in FenceContents, r \in FenceDelims }

\* Nested fences: an outer pair around text, an interior pair and more text,
\* followed by the rest of the formula
OuterLefts == {"(", "["}
OuterRights == {")", "]"}
InnerPairs == { [left |-> "(", right |-> ")"], [left |-> "[", right |-> "]"] }
FencePre == { <<>>, <<"a">>, <<"[", "a", "]">> }
FencePost == { <<>>, <<"b">> }
FenceTails == { <<>>, <<"c">> }

InteriorFence(ip) == FenceFormula(ip.left, <<"x">>, ip.right)

NestedInner(pre, ip, post) == pre \o InteriorFence(ip) \o post

NestedFence(l, pre, ip, post, r) == FenceFormula(l, NestedInner(pre, ip, post), r)

NestedFenceFormulas ==
    { NestedFence(l, pre, ip, post, r) \o tail :
        l \in OuterLefts, pre \in FencePre, ip \in InnerPairs,
        post \in FencePost, r \in OuterRights, tail \in FenceTails }

\* The markups of the documented examples
SumExample == <<BS, "s", "u", "m", "_", "{", "i", "=", "1", "}", "^", "{", "n", "}", " ", "i">>
ThinNegExample == <<BS, "!">>
ThinPosExample == <<BS, ",">>
Examples ==
    { SumExample, ThinNegExample, ThinPosExample,
      <<BS, "f", "r", "a", "c", "{", "1", "}", "{", "2", "}">>,
      <<"x", "^", "2">>,
      <<BS, "l", "e", "f", "t", "(", "x", BS, "r", "i", "g", "h", "t", ")">>,
      <<BS, "a", "l", "p", "h", "a">>,
      <<BS, "i", "n", "t", "_", "0", "^", "1">>,
      <<BS, "i", "n", "t", "_", "{", "a", "}", "^", "{", "b", "}", "x">>,
      <<BS, "i", "n", "t", "^", "1">>,
      <<BS, "i", "n", "t", "_", "0">>,
      <<"f", "[", "x", "]", "+", "1">>,
      <<"{", "x", "}">>,
      <<"a", BS, "!", "b">>,
      <<"a", BS, ",", "b">>,
      <<BS, "l", "i", "m", "_", "{", "x", BS, "t", "o", " ", "0", "}">>,
      <<BS, "l", "e", "f", "t", "(", BS, "l", "e", "f", "t", "[", "x", BS, "r", "i", "g", "h", "t", "]", BS, "r", "i", "g", "h", "t", ")">>,
      <<BS, "s", "q", "r", "t", "[", "3", "]", "{", "x", "^", "2", "}", "+", BS, "f", "r", "a", "c", "{", "a", "}", "{", "b", "}">> }

\* Every contiguous piece of an example: what the edit control holds while
\* the example is typed or cut
Pieces(s) == { SubSeq(s, i, j) : i \in 1..(Len(s) + 1), j \in 0..Len(s) }

ExampleFormulas == UNION { Pieces(e) : e \in Examples }

\* The markups the model lets the edit control hold: the texts above and,
\* since they are typed one character at a time, every prefix of them.
Prefixes(s) == { SubSeq(s, 1, n) : n \in 0..Len(s) }

Formulas ==
    UNION { Prefixes(f) : f \in FragmentFormulas \cup ScriptFormulas
                                 \cup FenceFormulas \cup ExampleFormulas
                                 \cup BigOperatorFormulas
                                 \cup NestedFenceFormulas }

\* The characters that can be typed
Alphabet == UNION { { f[i] : i \in DOMAIN f } : f \in Formulas }

\* The texts one keystroke away from s: a character typed at the end, or the
\* last character deleted
Typed(s) ==
    { Append(s, c) : c \in Alphabet }
    \cup (IF s = <<>> THEN {} ELSE { SubSeq(s, 1, Len(s) - 1) })

(* ------------------------------- program ------------------------------- *)

\* After construction: currentFormula is empty and nothing is painted.
\* SaveToSVG's padding around the formula
padding == 50

\* No document: SaveToSVG is not running
NoFile == [totalWidth |-> 0, totalHeight |-> 0]

Init ==
    /\ currentFormula = <<>>
    /\ pc = "idle"
    /\ root = Null
    /\ pos = 0
    /\ parseOk = TRUE
    /\ rend \in { GDIRenderer(p) : p \in Profiles }
    /\ prevRoot = Null
    /\ out = <<>>
    /\ calls = <<>>
    /\ fullFile = NoFile

\* WM_COMMAND / EN_CHANGE: the edit control's text replaces currentFormula
\* and the window is invalidated.
EditChange ==
    /\ pc \in {"idle", "drawn", "saved"}
    /\ \E f \in Typed(currentFormula) :
           /\ f \in Formulas
           /\ currentFormula' = f
    /\ pc' = "idle"
    /\ root' = Null
    /\ pos' = 0
    /\ parseOk' = TRUE
    /\ prevRoot' = Null
    /\ out' = <<>>
    /\ calls' = <<>>
    /\ rend' = GDIRenderer(rend.prof)
    /\ fullFile' = NoFile

\* WM_PAINT, up to the return of parser.Parse()
PaintParse ==
    /\ pc \in {"idle", "drawn", "saved"}
    /\ \E p \in {Parse(currentFormula, BASE_FONT_SIZE)} :
           /\ root' = p.row
           /\ pos' = p.pos
           /\ parseOk' = p.ok
    /\ rend' = GDIRenderer(rend.prof)
    /\ pc' = "parsed"
    /\ prevRoot' = Null
    /\ out' = <<>>
    /\ calls' = <<>>
    /\ fullFile' = NoFile
    /\ UNCHANGED currentFormula

\* WM_PAINT: root->Measure(&gdi)
PaintMeasure ==
    /\ pc = "parsed"
    /\ LET m == Measure(root, rend)
       IN  /\ root' = m.node
           /\ rend' = m.r
    /\ pc' = "measured"
    /\ UNCHANGED <<currentFormula, pos, parseOk, prevRoot, out, calls, fullFile>>

\* Measure called once more on the measured tree, nothing else touched
MeasureAgain ==
    /\ pc = "measured"
    /\ LET m == Measure(root, rend)
       IN  /\ root' = m.node
           /\ rend' = m.r
    /\ prevRoot' = root
    /\ pc' = "remeasured"
    /\ UNCHANGED <<currentFormula, pos, parseOk, out, calls, fullFile>>

\* WM_PAINT: root->Draw(&gdi, RENDER_X, RENDER_Y + root->ascent)
PaintDraw ==
    /\ pc \in {"measured", "remeasured"}
    /\ LET d == Draw(root, rend, RENDER_X, RENDER_Y + root.ascent, <<>>)
       IN  /\ out' = d.out
           /\ calls' = d.calls
           /\ rend' = d.r
    /\ pc' = "drawn"
    /\ prevRoot' = Null
    /\ UNCHANGED <<currentFormula, root, pos, parseOk, fullFile>>

\* WM_COMMAND / IDC_BTN_SAVE with a file name chosen: SaveToSVG parses the
\* formula, measures the tree with an SVGRenderer, sizes the document from
\* the root and draws the tree at (padding, padding + root->ascent).  A
\* cancelled dialog returns before any of this.
SaveToSVG ==
    /\ pc \in {"idle", "drawn", "saved"}
    /\ \E p \in {Parse(currentFormula, BASE_FONT_SIZE)} :
         \E m \in {Measure(p.row, SVGRenderer(rend.prof))} :
           \E d \in {Draw(m.node, m.r, padding, padding + m.node.ascent, <<>>)} :
               /\ root' = m.node
               /\ pos' = p.pos
               /\ parseOk' = p.ok
               /\ fullFile' = [totalWidth |-> m.node.width + padding * 2,
                               totalHeight |-> m.node.height + padding * 2 + 20]
               /\ out' = d.out
               /\ calls' = d.calls
               /\ rend' = d.r
    /\ pc' = "saved"
    /\ prevRoot' = Null
    /\ UNCHANGED currentFormula

Next ==
    EditChange \/ PaintParse \/ PaintMeasure \/ MeasureAgain \/ PaintDraw
        \/ SaveToSVG

Spec == Init /\ [][Next]_vars

(* ------------------------------- C1 .. C3 ------------------------------ *)

Parsed == pc \in {"parsed", "measured", "remeasured", "drawn"}
Measured == pc \in {"measured", "remeasured", "drawn"}

\* C1: after Measure over a tree returned by Parse, every node has
\* ascent <= height and width >= 0.
C1_AscentWithinHeight ==
    Measured => \A n \in AllNodes(root) : n.ascent <= n.height /\ n.width >= 0

\* C2: Parse terminates and returns a sequence node without failing: every
\* iteration of every parse loop moves the cursor forward and stays within
\* the input, and every recursive sub-parse runs over a string strictly
\* shorter than its parent's input.
C2_ParseTerminates ==
    Parsed => /\ parseOk
              /\ root.kind = "RowNode"
              /\ pos <= Len(currentFormula)

UnclosedNestedLeft == <<BS, "l", "e", "f", "t", "(", BS, "l", "e", "f", "t", "[", "x", BS, "r", "i", "g", "h", "t", "]">>

C2_Witness ==
    /\ pc = "parsed"
    /\ currentFormula = UnclosedNestedLeft
    /\ parseOk
    /\ pos = Len(currentFormula)
    /\ root.children[1].kind = "ScalingFenceNode"
    /\ root.children[1].content.children[1].kind = "ScalingFenceNode"

\* The number of openers o not yet closed by a closer c in s[1..n]
OpenBefore(s, n, o, c) ==
    IF n = 0 THEN 0
    ELSE LET d == OpenBefore(s, n - 1, o, c)
         IN  IF s[n] = o THEN d + 1
             ELSE IF s[n] = c THEN Max(0, d - 1) ELSE d

\* The closer at cursor p has no corresponding opener earlier in s
UnmatchedCloser(s, p) ==
    \/ Peek(s, p) = "}" /\ OpenBefore(s, p, "{", "}") = 0
    \/ Peek(s, p) = "]" /\ OpenBefore(s, p, "[", "]") = 0

\* C3: when Parse returns, the cursor is at the end of the input or rests on
\* an unmatched closing brace or bracket; balanced input is consumed entirely.
C3_StopsOnlyAtUnmatchedCloser ==
    Parsed => \/ pos = Len(currentFormula)
              \/ UnmatchedCloser(currentFormula, pos)

(* ------------------------------- C4 .. C7 ------------------------------ *)

\* The item a base markup parses to on its own
BaseItem(b) == ParseItem(b, 0, BASE_FONT_SIZE).node

\* The parse of a block's text at 70% of the ambient font size
ScriptParse(blk) == Parse(blk.content, (BASE_FONT_SIZE * 7) \div 10).row

\* C4: for a base that is not a BigOperatorNode and blocks A and B, base^A_B
\* and base_B^A parse to the same tree: one ScriptNode wrapping the original
\* base, superscript = parse of A and subscript = parse of B at 70% size.
C4_ScriptOrderIrrelevant ==
    (pc = "parsed" /\ currentFormula \in ScriptFormulas) =>
        \A b \in ScriptBases, A \in Blocks, B \in Blocks :
            (currentFormula = SuperFirst(b, A, B) \/ currentFormula = SubFirst(b, A, B))
            => /\ BaseItem(b).kind \notin {"BigOperatorNode", "ScriptNode"}
               /\ root = RowNode(<< [ScriptNode(BaseItem(b)) EXCEPT
                                        !.super = ScriptParse(A),
                                        !.sub = ScriptParse(B)] >>)

C4_Witness ==
    /\ pc = "parsed"
    /\ \E A \in Blocks, B \in Blocks :
          /\ A.content = <<"2">>
          /\ B.content = <<"n", "+", "1">>
          /\ currentFormula = SubFirst(<<"x">>, A, B)
    /\ Len(root.children) = 1
    /\ root.children[1].kind = "ScriptNode"
    /\ root.children[1].base.kind = "TextNode"
    /\ root.children[1].super # Null
    /\ root.children[1].sub # Null

IntMarkup == <<BS, "i", "n", "t">>

\* C5: after \int followed by a _ block B and/or a ^ block A, the
\* IntegralNode produced has lower = parse of B and upper = parse of A.
C5_IntegralLimitsAttach ==
    (pc = "parsed" /\ currentFormula \in ScriptFormulas) =>
        \A A \in Blocks, B \in Blocks :
            (currentFormula = SuperFirst(IntMarkup, A, B)
                \/ currentFormula = SubFirst(IntMarkup, A, B))
            => root = RowNode(<< [IntegralNode(BASE_FONT_SIZE) EXCEPT
                                     !.upper = ScriptParse(A),
                                     !.lower = ScriptParse(B)] >>)

\* C6: \! parses to exactly one item, an empty TextNode with offset -15% of
\* the font size (truncated), and \, to one with offset +15%.
C6_ThinSpaceCommands ==
    pc = "parsed" =>
        /\ currentFormula = ThinNegExample =>
              root.children = << TextNode(<<>>, FALSE, BASE_FONT_SIZE,
                                          -((BASE_FONT_SIZE * 15) \div 100)) >>
        /\ currentFormula = ThinPosExample =>
              root.children = << TextNode(<<>>, FALSE, BASE_FONT_SIZE,
                                          (BASE_FONT_SIZE * 15) \div 100) >>

\* The BigOperatorNode the sum example names
SumExampleOperator ==
    [BigOperatorNode(SumGlyph, BASE_FONT_SIZE, FALSE) EXCEPT
        !.lower = ScriptParse([content |-> <<"i", "=", "1">>]),
        !.upper = ScriptParse([content |-> <<"n">>])]

\* C7 as stated: the sum example parses to exactly two items, the
\* BigOperatorNode with both limits and a TextNode "i".
C7_SumExampleTwoItems ==
    (pc = "parsed" /\ currentFormula = SumExample) =>
        /\ Len(root.children) = 2
        /\ root.children[1] = SumExampleOperator
        /\ root.children[2].kind = "TextNode"
        /\ root.children[2].text = <<"i">>

\* C7 amended: the sum example parses to exactly three items, the
\* BigOperatorNode with both limits, a TextNode " " for the space, and a
\* TextNode "i".
C7_SumExampleThreeItems ==
    (pc = "parsed" /\ currentFormula = SumExample) =>
        root.children = << SumExampleOperator,
                           TextNode(<<" ">>, FALSE, BASE_FONT_SIZE, 0),
                           TextNode(<<"i">>, TRUE, BASE_FONT_SIZE, 0) >>

C7_Witness ==
    /\ pc = "parsed"
    /\ currentFormula = SumExample
    /\ Len(root.children) = 3
    /\ root.children[1].kind = "BigOperatorNode"
    /\ root.children[1].lower # Null
    /\ root.children[1].upper # Null


(* ------------------------------- C8 .. C10 ----------------------------- *)

MixedExample == <<BS, "s", "q", "r", "t", "[", "3", "]", "{", "x", "^", "2", "}", "+", BS, "f", "r", "a", "c", "{", "a", "}", "{", "b", "}">>

\* C8: Measure is idempotent: a second Measure of the measured tree leaves
\* width, height and ascent of every node as the first call set them.
C8_MeasureIdempotent == pc = "remeasured" => root = prevRoot

C8_Witness ==
    /\ pc = "remeasured"
    /\ currentFormula = MixedExample
    /\ Len(root.children) = 3
    /\ root.width > 0
    /\ root = prevRoot

\* The Draw calls made, as a set
CallSet == { calls[k] : k \in DOMAIN calls }

\* The Draw calls on nodes of one kind
CallsOn(kind) == { c \in CallSet : NodeAt(root, c.path).kind = kind }

\* The vertical coordinates of the end points of some segments
EndYs(lines) ==
    { lines[k].y1 : k \in DOMAIN lines } \cup { lines[k].y2 : k \in DOMAIN lines }

\* The segments span vertically exactly from top to bottom
Spans(lines, top, bottom) ==
    /\ lines # <<>>
    /\ top \in EndYs(lines)
    /\ bottom \in EndYs(lines)
    /\ \A v \in EndYs(lines) : top <= v /\ v <= bottom

\* Every segment is among the primitives drawn
Emitted(lines) == \A k \in DOMAIN lines : \E m \in DOMAIN out : out[m] = lines[k]

\* The content of the fence drawn by call c is drawn at the same y
ContentAtSameY(c) ==
    \E d \in CallSet : d.path = Append(c.path, 1) /\ d.y = c.y

FenceShapes == {"(", ")", "[", "]", "|"}
LeftShapes == {"(", "[", "|"}
RightShapes == {")", "]", "|"}

\* C9 as stated: for any delimiter among ( ) [ ] |, the segments drawn for
\* it span vertically exactly from y to y + content.height, y being where the
\* content is drawn; an empty or other delimiter draws no segment.
C9_FenceSpansContent ==
    pc = "drawn" =>
        \A c \in CallsOn("ScalingFenceNode") :
            LET node == NodeAt(root, c.path)
                l == FenceLeftLines(node, c.x, c.y)
                r == FenceRightLines(node, c.x, c.y)
                bottom == c.y + node.content.height
            IN  /\ ContentAtSameY(c)
                /\ Emitted(l) /\ Emitted(r)
                /\ IF \E ch \in FenceShapes : node.left = <<ch>>
                   THEN Spans(l, c.y, bottom) ELSE l = <<>>
                /\ IF \E ch \in FenceShapes : node.right = <<ch>>
                   THEN Spans(r, c.y, bottom) ELSE r = <<>>

\* C9 amended: for a left delimiter among ( [ | and a right delimiter among
\* ) ] |, the segments drawn for it span vertically exactly from y to
\* y + content.height, y being where the content is drawn; any other
\* delimiter on that side (empty, another character, or a closing shape on
\* the left or an opening shape on the right) draws no segment.
C9_FenceSpansContentBySide ==
    pc = "drawn" =>
        \A c \in CallsOn("ScalingFenceNode") :
            LET node == NodeAt(root, c.path)
                l == FenceLeftLines(node, c.x, c.y)
                r == FenceRightLines(node, c.x, c.y)
                bottom == c.y + node.content.height
            IN  /\ ContentAtSameY(c)
                /\ Emitted(l) /\ Emitted(r)
                /\ IF \E ch \in LeftShapes : node.left = <<ch>>
                   THEN Spans(l, c.y, bottom) ELSE l = <<>>
                /\ IF \E ch \in RightShapes : node.right = <<ch>>
                   THEN Spans(r, c.y, bottom) ELSE r = <<>>

C9_Witness ==
    /\ pc = "drawn"
    /\ currentFormula = FenceFormula("(", <<BS, "f", "r", "a", "c", "{", "1", "}", "{", "2", "}">>, "]")
    /\ \E c \in CallsOn("ScalingFenceNode") :
          LET node == NodeAt(root, c.path)
          IN  /\ node.left = <<"(">>
              /\ node.right = <<"]">>
              /\ node.content.height > BASE_FONT_SIZE
              /\ Len(FenceLeftLines(node, c.x, c.y)) = 2
              /\ Len(FenceRightLines(node, c.x, c.y)) = 3

\* The sum of the widths of the children before the i-th
WidthBefore(ch, i) == IF i <= 1 THEN 0 ELSE WidthBefore(ch, i - 1) + ch[i - 1].width

\* C10: RowNode::Draw(x, y) draws the i-th child at x plus the widths of the
\* children before it and at y + (row.ascent - child.ascent), so that the
\* child's y plus its ascent is y + row.ascent for every child.
C10_RowBaseline ==
    pc = "drawn" =>
        \A c \in CallsOn("RowNode") :
            LET row == NodeAt(root, c.path)
            IN  \A i \in DOMAIN row.children :
                    \E d \in CallSet :
                        /\ d.path = Append(c.path, i)
                        /\ d.x = c.x + WidthBefore(row.children, i)
                        /\ d.y = c.y + (row.ascent - row.children[i].ascent)
                        /\ d.y + row.children[i].ascent = c.y + row.ascent

C10_Witness ==
    /\ pc = "drawn"
    /\ currentFormula = MixedExample
    /\ \E c \in CallsOn("RowNode") :
          LET row == NodeAt(root, c.path)
          IN  /\ Len(row.children) = 3
              /\ row.children[1].ascent # row.children[2].ascent
              /\ row.children[1].width > 0
              /\ \E d \in CallSet : d.path = Append(c.path, 2) /\ d.y > c.y


\* The limit a run of suffixes leaves on its side: the parse of the block of
\* the last suffix of that type, absent when there is none
LastLimit(q, type) ==
    IF q = <<>> THEN Null
    ELSE IF q[Len(q)].type = type THEN ScriptParse(q[Len(q)].blk)
    ELSE LastLimit(SubSeq(q, 1, Len(q) - 1), type)

\* C11: when \sum, \prod or \lim is followed by any run of ^ and _ suffixes,
\* the only item of the sequence is the BigOperatorNode itself, never a
\* ScriptNode; its upper limit is the parse of the last ^ block and its lower
\* limit the parse of the last _ block, a side without a suffix stays absent
\* (so that either order of one ^ and one _ gives the same node).
C11_BigOperatorLimits ==
    (pc = "parsed" /\ currentFormula \in BigOperatorFormulas) =>
        \A cmd \in BigOperatorCommands, q \in SuffixRuns :
            currentFormula = BigOperatorMarkup(cmd, q) =>
                /\ Len(root.children) = 1
                /\ root.children[1].kind = "BigOperatorNode"
                /\ root.children[1] = [BaseItem(cmd) EXCEPT
                                          !.upper = LastLimit(q, "^"),
                                          !.lower = LastLimit(q, "_")]
                /\ pos = Len(currentFormula)

\* \prod^{2}^n has been parsed: the second ^ block replaced the first and the
\* lower limit is absent
C11_Witness ==
    /\ pc = "parsed"
    /\ currentFormula = <<BS, "p", "r", "o", "d", "^", "{", "2", "}", "^", "n">>
    /\ currentFormula \in BigOperatorFormulas
    /\ root.children[1].kind = "BigOperatorNode"
    /\ root.children[1].upper = ScriptParse([content |-> <<"n">>])
    /\ root.children[1].lower = Null

\* C12: for markup whose \left X ... \right Y pairs are properly nested, the
\* outer \left X parses to one ScalingFenceNode with left = X, right = Y of
\* the matching \right, content = the parse of exactly the text between X and
\* that \right, the cursor is left immediately after Y, and the interior pair
\* is a nested ScalingFenceNode inside the content.
C12_NestedFences ==
    (pc = "parsed" /\ currentFormula \in NestedFenceFormulas) =>
        \A l \in OuterLefts, pre \in FencePre, ip \in InnerPairs,
           post \in FencePost, r \in OuterRights, tail \in FenceTails :
            currentFormula = NestedFence(l, pre, ip, post, r) \o tail =>
                /\ Len(root.children) >= 1
                /\ root.children[1] =
                       ScalingFenceNode(
                           Parse(NestedInner(pre, ip, post), BASE_FONT_SIZE).row,
                           <<l>>, <<r>>)
                /\ ParseItem(currentFormula, 0, BASE_FONT_SIZE).pos
                       = Len(NestedFence(l, pre, ip, post, r))
                /\ \E i \in DOMAIN root.children[1].content.children :
                       root.children[1].content.children[i] =
                           ScalingFenceNode(Parse(<<"x">>, BASE_FONT_SIZE).row,
                                            <<ip.left>>, <<ip.right>>)

\* The horizontal coordinates of the end points of some segments
EndXs(lines) ==
    { lines[k].x1 : k \in DOMAIN lines } \cup { lines[k].x2 : k \in DOMAIN lines }

\* The radicand of the radical drawn by call c lies within [left, right]
RadicandWithin(c, left, right) ==
    \A d \in CallSet :
        d.path = Append(c.path, 2) =>
            left <= d.x /\ d.x + NodeAt(root, d.path).width <= right

\* C13: for every SqrtNode, with or without an index, every segment its
\* Draw(x, y) emits and the horizontal extent of the drawn radicand lie
\* within [x, x + width] for the width Measure computed: the offset Draw
\* applies for the index agrees with the width Measure adds for it.
C13_RadicalWithinWidth ==
    pc = "drawn" =>
        \A c \in CallsOn("SqrtNode") :
            /\ Emitted(SqrtLines(NodeAt(root, c.path), c.x, c.y))
            /\ \A v \in EndXs(SqrtLines(NodeAt(root, c.path), c.x, c.y)) :
                   c.x <= v /\ v <= c.x + NodeAt(root, c.path).width
            /\ RadicandWithin(c, c.x, c.x + NodeAt(root, c.path).width)

\* The child drawn by call d lies vertically within [top, bottom]: from its
\* draw origin to the origin plus its measured height
BoxWithin(d, top, bottom) ==
    top <= d.y /\ d.y + NodeAt(root, d.path).height <= bottom

\* The Draw calls a node drawn by call c makes on its children
ChildCalls(c) ==
    { d \in CallSet : Len(d.path) = Len(c.path) + 1
                      /\ SubSeq(d.path, 1, Len(c.path)) = c.path }

\* C14: for every ScriptNode after Measure, Draw(x, y) places the base, the
\* superscript and the subscript so that the box of each (its draw origin to
\* the origin plus its measured height) lies vertically within
\* [y, y + height] of the ScriptNode, in the window and in the SVG export
\* alike; in particular the superscript is never drawn starting above y.
C14_ScriptChildrenWithinHeight ==
    pc \in {"drawn", "saved"} =>
        \A c \in CallsOn("ScriptNode") :
            \A d \in ChildCalls(c) :
                BoxWithin(d, c.y, c.y + NodeAt(root, c.path).height)

TypeOK == pc \in {"idle", "parsed", "measured", "remeasured", "drawn", "saved"}

====
